---- MODULE Spec2Model ----
(***************************************************************************)
(* Course recommendation engine of apex_backend/learning/recommender.py:   *)
(* CourseRecommender (load_data, fit, the two queries, get_popular_courses,*)
(* refresh), the module singleton (get_recommender, refresh_recommender)   *)
(* and the two recommendation views of learning/api/views.py.              *)
(*                                                                         *)
(* Fixed point: a similarity score s in [0,1] is the integer 100*s; TF and *)
(* IDF weights are integers 10*w.  Text is a set of words; bigrams are left *)
(* out.  Rows of the DataFrame and of the matrices are numbered from 0 as  *)
(* in the source; row i is element i+1 of the TLA+ sequence.               *)
(***************************************************************************)
EXTENDS Integers, Sequences, FiniteSets, TLC

(***************************************************************************)
(* Bounds of the model.                                                    *)
(***************************************************************************)
MaxCatalog == 3
MaxTopN == 2
NumThreads == 2

(***************************************************************************)
(* Optional values: Python's None and a held value.                        *)
(***************************************************************************)
None == <<>>
Some(x) == <<x>>
Val(o) == o[1]

NoExc == "none"

(***************************************************************************)
(* The catalog collaborator: the course table.  Four course records stand  *)
(* for the rows the table can hold.                                        *)
(***************************************************************************)
CourseIds == {"A", "B", "C", "D"}

CourseTable ==
  [id \in CourseIds |->
     CASE id = "A" -> [id |-> "A", title |-> {"python", "for", "data", "science"},
                       description |-> {"pandas"}, category |-> "data_science",
                       total_enrollments |-> 5, average_rating |-> 4,
                       price |-> 0, platform |-> "apex",
                       external_url |-> "", thumbnail_url |-> ""]
       [] id = "B" -> [id |-> "B", title |-> {"python", "web", "development"},
                       description |-> {}, category |-> "web_development",
                       total_enrollments |-> 9, average_rating |-> 3,
                       price |-> 1999, platform |-> "udemy",
                       external_url |-> "https://udemy.example/b",
                       thumbnail_url |-> "https://img.example/b.png"]
       [] id = "C" -> [id |-> "C", title |-> {"the"},
                       description |-> {}, category |-> "other",
                       total_enrollments |-> 5, average_rating |-> 5,
                       price |-> 500, platform |-> "apex",
                       external_url |-> "", thumbnail_url |-> ""]
       [] id = "D" -> [id |-> "D", title |-> {"python", "for", "data", "science"},
                       description |-> {"pandas"}, category |-> "data_science",
                       total_enrollments |-> 0, average_rating |-> 0,
                       price |-> 0, platform |-> "apex",
                       external_url |-> "", thumbnail_url |-> ""]]

\* str(category).replace('_', ' ') split into words
CategoryWords(category) ==
  CASE category = "data_science" -> {"data", "science"}
    [] category = "web_development" -> {"web", "development"}
    [] OTHER -> {category}

\* the words of sklearn's English stop-word list that the course table uses
StopWords == {"the", "for", "other"}

\* free-text queries: words of the courses, and words outside every vocabulary
Queries == {{"python", "data"}, {"rust", "the"}}

\* the query texts of a direct call: those, and the empty string
DirectQueries == Queries \cup {{}}

\* min_score values, as 100 * score
MinScores == {0, 50}

Scale == 100

(***************************************************************************)
(* _create_combined_text: the title three times, the description once, the *)
(* category (underscores to spaces) twice; a bag word -> count.            *)
(***************************************************************************)
CreateCombinedText(row) ==
  LET cat == CategoryWords(row.category)
      words == row.title \cup row.description \cup cat
  IN [w \in words |->
        (IF w \in row.title THEN 3 ELSE 0)
      + (IF w \in row.description THEN 1 ELSE 0)
      + (IF w \in cat THEN 2 ELSE 0)]

(***************************************************************************)
(* TfidfVectorizer(min_df=1, max_df=0.95, stop_words='english',            *)
(* sublinear_tf, smooth_idf).fit_transform                                 *)
(***************************************************************************)
MinDf == 1
MaxDfPercent == 95

\* 10 * ln(k), k = 1..8
Ln10 == <<0, 7, 11, 14, 16, 18, 19, 21>>

\* sublinear tf, 10 * (1 + ln(count))
TfWeight(count) == 10 + Ln10[count]

\* smooth idf, 10 * (ln((1 + n) / (1 + df)) + 1)
Idf(n, df) == 10 + Ln10[1 + n] - Ln10[1 + df]

\* the analyzer: the words of a text that are not stop-words, with counts
Analyze(bag) ==
  [w \in (DOMAIN bag) \ StopWords |-> bag[w]]

DocFreq(docs, w) == Cardinality({i \in DOMAIN docs : w \in DOMAIN docs[i]})

\* every word of the analyzed texts
Candidates(docs) == UNION {DOMAIN docs[i] : i \in DOMAIN docs}

\* the words kept by the document-frequency limits
LimitFeatures(docs, candidates) ==
  {w \in candidates :
     /\ DocFreq(docs, w) >= MinDf
     /\ 100 * DocFreq(docs, w) <= MaxDfPercent * Len(docs)}

\* transform of one analyzed text under a fitted vocabulary
TransformDoc(vec, doc) ==
  [w \in (DOMAIN doc) \cap vec.vocabulary |->
     (TfWeight(doc[w]) * Idf(vec.n_docs, vec.df[w])) \div 10]

UnfittedVectorizer ==
  [fitted |-> FALSE, vocabulary |-> {}, n_docs |-> 0, df |-> <<>>]

FittedVectorizer(docs, kept) ==
  [fitted |-> TRUE, vocabulary |-> kept, n_docs |-> Len(docs),
   df |-> [w \in kept |-> DocFreq(docs, w)]]

\* fit_transform raises
VectorizerRaises ==
  [exc |-> "ValueError", vectorizer |-> UnfittedVectorizer, X |-> <<>>]

TransformAll(vec, docs) ==
  [exc |-> NoExc, vectorizer |-> vec,
   X |-> [i \in DOMAIN docs |-> TransformDoc(vec, docs[i])]]

\* "After pruning, no terms remain"
FitLimited(docs, kept) ==
  IF kept = {} THEN VectorizerRaises
  ELSE TransformAll(FittedVectorizer(docs, kept), docs)

\* "empty vocabulary", then "max_df corresponds to < documents than min_df"
FitAnalyzed(docs) ==
  IF Candidates(docs) = {} THEN VectorizerRaises
  ELSE IF MaxDfPercent * Len(docs) < 100 * MinDf THEN VectorizerRaises
  ELSE FitLimited(docs, LimitFeatures(docs, Candidates(docs)))

\* fit_transform over the combined_text column; exc is the error it raises
FitTransform(texts) ==
  FitAnalyzed([i \in DOMAIN texts |-> Analyze(texts[i])])

(***************************************************************************)
(* linear_kernel / cosine_similarity over weight vectors.  The L2          *)
(* normalisation of the rows is done here, on integers.                    *)
(***************************************************************************)
RECURSIVE SumOver(_, _)
SumOver(f, S) ==
  IF S = {} THEN 0
  ELSE LET x == CHOOSE y \in S : TRUE IN f[x] + SumOver(f, S \ {x})

DotOver(u, v, common) == SumOver([w \in common |-> u[w] * v[w]], common)

Dot(u, v) == DotOver(u, v, (DOMAIN u) \cap (DOMAIN v))

RECURSIVE SqrtSearch(_, _, _)
SqrtSearch(n, lo, hi) ==
  IF lo >= hi THEN lo
  ELSE IF ((lo + hi + 1) \div 2) * ((lo + hi + 1) \div 2) <= n
    THEN SqrtSearch(n, (lo + hi + 1) \div 2, hi)
    ELSE SqrtSearch(n, lo, ((lo + hi + 1) \div 2) - 1)

\* floor(sqrt(a * b)), which lies between a and b
SqrtOfProduct(a, b) ==
  IF a < b THEN SqrtSearch(a * b, a, b) ELSE SqrtSearch(a * b, b, a)

\* a variant of CosineOf that gives a zero vector the score 1
CosineOfZeroAsOne(uv, uu, vv) ==
  IF uu = 0 \/ vv = 0 THEN Scale
  ELSE (Scale * uv) \div SqrtOfProduct(uu, vv)

\* a variant of CosineOf without the L2 normalisation: the dot product of
\* the weight vectors
DotProductOnly(uv, uu, vv) == uv

\* uv / (|u| |v|) from the dot products; 0 for a zero vector
CosineOf(uv, uu, vv) ==
  IF uu = 0 \/ vv = 0 THEN 0
  ELSE (Scale * uv) \div SqrtOfProduct(uu, vv)

Cosine(u, v) == CosineOf(Dot(u, v), Dot(u, u), Dot(v, v))

LinearKernel(X, Y) ==
  [i \in DOMAIN X |-> [j \in DOMAIN Y |-> Cosine(X[i], Y[j])]]

(***************************************************************************)
(* CourseRecommender.  An engine object is the record of its attributes.   *)
(* A call's outcome is a record: e the engine after the call, exc the      *)
(* exception it raised, result the list it returned.                       *)
(***************************************************************************)
NewEngine ==
  [courses_df |-> None, tfidf_matrix |-> None, cosine_sim |-> None,
   course_indices |-> None, vectorizer |-> None, _is_fitted |-> FALSE]

Returns(e) == [e |-> e, exc |-> NoExc]

\* one row of the DataFrame built from the values() of a published course:
\* the query names price, average_rating and total_enrollments, and names
\* neither platform nor external_url nor thumbnail_url
DataFrameRow(c) ==
  [id |-> c.id, category |-> c.category,
   price |-> c.price,
   total_enrollments |-> c.total_enrollments,
   average_rating |-> c.average_rating,
   combined_text |-> CreateCombinedText(c)]

\* row.get(key, default) of a DataFrame row
Get(row, key, default) == IF key \in DOMAIN row THEN row[key] ELSE default

\* a variant of Get that answers the default for every key
GetDefault(row, key, default) == default

\* the display fields of a result dictionary, read from the row with get()
DisplayFields(row) ==
  [price |-> Get(row, "price", 0),
   average_rating |-> Get(row, "average_rating", 0),
   platform |-> Get(row, "platform", "apex"),
   external_url |-> Get(row, "external_url", ""),
   thumbnail_url |-> Get(row, "thumbnail_url", "")]

\* pd.Series(courses_df.index, index=courses_df['id'])
CourseIndexSeries(df) ==
  [id \in {df[i].id : i \in DOMAIN df} |->
     (CHOOSE i \in DOMAIN df : df[i].id = id) - 1]

\* a variant of StoreData that builds the index only when there is none yet
StoreDataKeepingIndex(e, df) ==
  IF df = <<>> \/ e.course_indices # None
    THEN Returns([e EXCEPT !.courses_df = Some(df)])
  ELSE Returns([e EXCEPT !.courses_df = Some(df),
                         !.course_indices = Some(CourseIndexSeries(df))])

\* load_data once the query has returned its rows
StoreData(e, df) ==
  IF df = <<>> THEN Returns([e EXCEPT !.courses_df = Some(df)])
  ELSE Returns([e EXCEPT !.courses_df = Some(df),
                         !.course_indices = Some(CourseIndexSeries(df))])

\* load_data: published is the result of the query, db_ok whether it succeeds
LoadData(e, published, db_ok) ==
  IF ~db_ok THEN [e |-> e, exc |-> "DatabaseError"]
  ELSE StoreData(e, [i \in DOMAIN published |->
                       DataFrameRow(CourseTable[published[i]])])

\* a variant of FitVectorized that sets the fitted flag before the matrices
FitVectorizedFlagFirst(e, ft) ==
  IF ft.exc # NoExc
    THEN [e |-> [e EXCEPT !.vectorizer = Some(UnfittedVectorizer),
                          !._is_fitted = TRUE], exc |-> ft.exc]
  ELSE Returns([e EXCEPT !.vectorizer = Some(ft.vectorizer),
                         !.tfidf_matrix = Some(ft.X),
                         !.cosine_sim = Some(LinearKernel(ft.X, ft.X)),
                         !._is_fitted = TRUE])

\* a variant of FitVectorized that keeps the vectorizer of an earlier fit
FitVectorizedKeepingVectorizer(e, ft) ==
  IF ft.exc # NoExc
    THEN [e |-> [e EXCEPT !.vectorizer = Some(UnfittedVectorizer)], exc |-> ft.exc]
  ELSE Returns([e EXCEPT !.vectorizer = IF e.vectorizer # None /\ Val(e.vectorizer).fitted
                                          THEN e.vectorizer
                                          ELSE Some(ft.vectorizer),
                         !.tfidf_matrix = Some(ft.X),
                         !.cosine_sim = Some(LinearKernel(ft.X, ft.X)),
                         !._is_fitted = TRUE])

\* the try block of fit, ft being the outcome of fit_transform
FitVectorized(e, ft) ==
  IF ft.exc # NoExc
    THEN [e |-> [e EXCEPT !.vectorizer = Some(UnfittedVectorizer)], exc |-> ft.exc]
  ELSE Returns([e EXCEPT !.vectorizer = Some(ft.vectorizer),
                         !.tfidf_matrix = Some(ft.X),
                         !.cosine_sim = Some(LinearKernel(ft.X, ft.X)),
                         !._is_fitted = TRUE])

CombinedTextColumn(df) == [i \in DOMAIN df |-> df[i].combined_text]

\* fit after its first statement, l being the outcome of that statement
FitLoaded(l) ==
  IF l.exc # NoExc THEN l
  ELSE IF Val(l.e.courses_df) = <<>>
    THEN Returns([l.e EXCEPT !._is_fitted = FALSE])
  ELSE FitVectorized(l.e, FitTransform(CombinedTextColumn(Val(l.e.courses_df))))

\* a variant of Fit that reads the catalog only when no corpus was loaded yet
FitLoadingOnce(e, published, db_ok) ==
  FitLoaded(IF e.courses_df = None
              THEN LoadData(e, published, db_ok)
              ELSE Returns(e))

\* fit
Fit(e, published, db_ok) ==
  FitLoaded(IF e.courses_df = None \/ e.courses_df = Some(<<>>)
              THEN LoadData(e, published, db_ok)
              ELSE Returns(e))

\* a variant of Refresh that leaves the matrices of the last fit in place
RefreshKeepingMatrices(e, published, db_ok) ==
  Fit([e EXCEPT !._is_fitted = FALSE, !.courses_df = None], published, db_ok)

\* a variant of Refresh that only discards the state of a fitted engine and
\* leaves the rebuild to the next call
RefreshDiscardingFitted(e, published, db_ok) ==
  IF e._is_fitted
    THEN Returns([e EXCEPT !._is_fitted = FALSE, !.courses_df = None,
                           !.tfidf_matrix = None, !.cosine_sim = None])
  ELSE Fit([e EXCEPT !._is_fitted = FALSE, !.courses_df = None,
                     !.tfidf_matrix = None, !.cosine_sim = None],
           published, db_ok)

\* a variant of Refresh that keeps the corpus of the last load
RefreshKeepingCorpus(e, published, db_ok) ==
  Fit([e EXCEPT !._is_fitted = FALSE,
                !.tfidf_matrix = None, !.cosine_sim = None],
      published, db_ok)

\* refresh
Refresh(e, published, db_ok) ==
  Fit([e EXCEPT !._is_fitted = FALSE, !.courses_df = None,
                !.tfidf_matrix = None, !.cosine_sim = None],
      published, db_ok)

(***************************************************************************)
(* Ranking.                                                                *)
(***************************************************************************)
\* list(enumerate(row)): pairs (row index from 0, score)
Enumerate(row) == [k \in DOMAIN row |-> [i |-> k - 1, score |-> row[k]]]

\* insert p behind every element whose score is at least p.score
RECURSIVE InsertDesc(_, _)
InsertDesc(p, sorted) ==
  IF sorted = <<>> THEN <<p>>
  ELSE IF Head(sorted).score >= p.score
    THEN <<Head(sorted)>> \o InsertDesc(p, Tail(sorted))
    ELSE <<p>> \o sorted

\* a variant of InsertDesc that puts p before the elements of equal score
RECURSIVE InsertDescFirst(_, _)
InsertDescFirst(p, sorted) ==
  IF sorted = <<>> THEN <<p>>
  ELSE IF Head(sorted).score > p.score
    THEN <<Head(sorted)>> \o InsertDescFirst(p, Tail(sorted))
    ELSE <<p>> \o sorted

\* a variant of SortedReverse that reverses the order of equal scores, as
\* sorting ascending and reversing the list does
RECURSIVE SortedThenReversed(_)
SortedThenReversed(pairs) ==
  IF pairs = <<>> THEN <<>>
  ELSE InsertDescFirst(pairs[Len(pairs)],
                       SortedThenReversed(SubSeq(pairs, 1, Len(pairs) - 1)))

\* sorted(pairs, key=score, reverse=True): stable, equal scores keep their order
RECURSIVE SortedReverse(_)
SortedReverse(pairs) ==
  IF pairs = <<>> THEN <<>>
  ELSE InsertDesc(pairs[Len(pairs)], SortedReverse(SubSeq(pairs, 1, Len(pairs) - 1)))

\* one entry of a recommendations list
Recommendation(course_data, score) ==
  [id |-> course_data.id, category |-> course_data.category,
   display |-> DisplayFields(course_data),
   similarity_score |-> score, match_percentage |-> score]

\* "if len(recommendations) >= top_n: break"
EnoughRecommendations(recommendations, top_n) == Len(recommendations) >= top_n

\* a variant of BelowMinScore that also drops a score equal to min_score
NotAboveMinScore(score, min_score) == score <= min_score

\* "if score < min_score: continue"
BelowMinScore(score, min_score) == score < min_score

\* a variant of SameCategoryExcluded with the comparison inverted
OtherCategoryExcluded(exclude_same_category, category, input_category) ==
  exclude_same_category /\ category # input_category

\* "if exclude_same_category and course_data['category'] == input_category"
SameCategoryExcluded(exclude_same_category, category, input_category) ==
  exclude_same_category /\ category = input_category

\* the loop over sim_scores of get_recommendations
RECURSIVE RecommendationLoop(_, _, _, _, _, _, _)
RecommendationLoop(sim_scores, recommendations, df, input_category, top_n, exclude_same_category, min_score) ==
  IF sim_scores = <<>> THEN recommendations
  ELSE IF \/ BelowMinScore(Head(sim_scores).score, min_score)
          \/ SameCategoryExcluded(exclude_same_category,
                                  df[Head(sim_scores).i + 1].category,
                                  input_category)
    THEN RecommendationLoop(Tail(sim_scores), recommendations, df,
           input_category, top_n, exclude_same_category, min_score)
  ELSE IF EnoughRecommendations(
            Append(recommendations,
                   Recommendation(df[Head(sim_scores).i + 1], Head(sim_scores).score)),
            top_n)
    THEN Append(recommendations,
                Recommendation(df[Head(sim_scores).i + 1], Head(sim_scores).score))
  ELSE RecommendationLoop(Tail(sim_scores),
         Append(recommendations,
                Recommendation(df[Head(sim_scores).i + 1], Head(sim_scores).score)),
         df, input_category, top_n, exclude_same_category, min_score)

\* a variant of DropInput that drops nothing
KeepInput(sim_scores, idx) == sim_scores

\* sim_scores without the input course
DropInput(sim_scores, idx) ==
  SelectSeq(sim_scores, LAMBDA p : p.i # idx)

\* get_recommendations from "sim_scores = sorted(...)" on, row being
\* self.cosine_sim[idx]
RankScores(df, row, idx, top_n, exclude_same_category, min_score) ==
  RecommendationLoop(DropInput(SortedReverse(Enumerate(row)), idx),
                     <<>>, df, df[idx + 1].category,
                     top_n, exclude_same_category, min_score)

\* get_recommendations from "idx = self.course_indices[course_id]" on
RankRow(df, cosine_sim, idx, top_n, exclude_same_category, min_score) ==
  RankScores(df, cosine_sim[idx + 1], idx, top_n, exclude_same_category, min_score)

\* the body of get_recommendations on a fitted engine whose index has course_id
RankSimilar(e, course_id, top_n, exclude_same_category, min_score) ==
  RankRow(Val(e.courses_df), Val(e.cosine_sim), Val(e.course_indices)[course_id],
          top_n, exclude_same_category, min_score)

\* a variant of EnsureFitted that rebuilds the engine from the catalog on
\* every query
EnsureFresh(e, published, db_ok) ==
  Fit([e EXCEPT !._is_fitted = FALSE, !.courses_df = None,
                !.tfidf_matrix = None, !.cosine_sim = None],
      published, db_ok)

\* "if not self._is_fitted: self.fit()", the first statement of both queries
EnsureFitted(e, published, db_ok) ==
  IF ~e._is_fitted THEN Fit(e, published, db_ok) ELSE Returns(e)

\* a variant of GetRecommendationsBody that answers an unknown id with []
GetRecommendationsBodySilent(f, course_id, top_n, exclude_same_category, min_score) ==
  IF f.exc # NoExc THEN [e |-> f.e, exc |-> f.exc, result |-> <<>>]
  ELSE IF ~f.e._is_fitted THEN [e |-> f.e, exc |-> NoExc, result |-> <<>>]
  ELSE IF course_id \notin DOMAIN Val(f.e.course_indices)
    THEN [e |-> f.e, exc |-> NoExc, result |-> <<>>]
  ELSE [e |-> f.e, exc |-> NoExc,
        result |-> RankSimilar(f.e, course_id, top_n,
                               exclude_same_category, min_score)]

\* get_recommendations after that statement, f being its outcome
GetRecommendationsBody(f, course_id, top_n, exclude_same_category, min_score) ==
  IF f.exc # NoExc THEN [e |-> f.e, exc |-> f.exc, result |-> <<>>]
  ELSE IF ~f.e._is_fitted THEN [e |-> f.e, exc |-> NoExc, result |-> <<>>]
  ELSE IF course_id \notin DOMAIN Val(f.e.course_indices)
    THEN [e |-> f.e, exc |-> "ValueError", result |-> <<>>]
  ELSE [e |-> f.e, exc |-> NoExc,
        result |-> RankSimilar(f.e, course_id, top_n,
                               exclude_same_category, min_score)]

\* get_recommendations
GetRecommendations(e, published, db_ok, course_id, top_n, exclude_same_category, min_score) ==
  GetRecommendationsBody(EnsureFitted(e, published, db_ok), course_id, top_n,
                         exclude_same_category, min_score)

(***************************************************************************)
(* Free-text query.                                                        *)
(***************************************************************************)
\* insert p before every element that is greater by (score, tie rank)
RECURSIVE InsertAsc(_, _, _)
InsertAsc(p, sorted, ties) ==
  IF sorted = <<>> THEN <<p>>
  ELSE IF \/ Head(sorted).score < p.score
          \/ /\ Head(sorted).score = p.score
             /\ ties[Head(sorted).i + 1] < ties[p.i + 1]
    THEN <<Head(sorted)>> \o InsertAsc(p, Tail(sorted), ties)
    ELSE <<p>> \o sorted

\* np.argsort(sim_scores): ascending by score; the default sort kind is not
\* stable, so the order of equal scores is the build's choice, given by ties
RECURSIVE Argsort(_, _)
Argsort(pairs, ties) ==
  IF pairs = <<>> THEN <<>>
  ELSE InsertAsc(Head(pairs), Argsort(Tail(pairs), ties), ties)

\* [::-1]
Reversed(s) == [k \in DOMAIN s |-> s[Len(s) + 1 - k]]

\* the orders of equal scores a build may produce: the rank of each row among
\* its equals, rows in ascending or in descending order
TieOrders ==
  {[k \in 1..MaxCatalog |-> k], [k \in 1..MaxCatalog |-> MaxCatalog + 1 - k]}

\* the loop over sorted_indices of get_recommendations_for_text
RECURSIVE TextRecommendationLoop(_, _, _, _, _)
TextRecommendationLoop(sorted_scores, recommendations, df, top_n, min_score) ==
  IF sorted_scores = <<>> THEN recommendations
  ELSE IF BelowMinScore(Head(sorted_scores).score, min_score)
    THEN TextRecommendationLoop(Tail(sorted_scores), recommendations,
                                df, top_n, min_score)
  ELSE IF EnoughRecommendations(
            Append(recommendations,
                   Recommendation(df[Head(sorted_scores).i + 1],
                                  Head(sorted_scores).score)),
            top_n)
    THEN Append(recommendations,
                Recommendation(df[Head(sorted_scores).i + 1],
                               Head(sorted_scores).score))
  ELSE TextRecommendationLoop(Tail(sorted_scores),
         Append(recommendations,
                Recommendation(df[Head(sorted_scores).i + 1],
                               Head(sorted_scores).score)),
         df, top_n, min_score)

\* cosine_similarity(query_vector, self.tfidf_matrix).flatten()
QuerySimilarity(query_vector, X) ==
  [k \in DOMAIN X |-> Cosine(query_vector, X[k])]

\* self.vectorizer.transform([query_text.lower()])
TransformQuery(vec, query_text) ==
  TransformDoc(vec, Analyze([w \in query_text |-> 1]))

\* the try block of get_recommendations_for_text
RankForText(e, query_text, top_n, min_score, ties) ==
  TextRecommendationLoop(
    Reversed(Argsort(Enumerate(
      QuerySimilarity(TransformQuery(Val(e.vectorizer), query_text),
                      Val(e.tfidf_matrix))), ties)),
    <<>>, Val(e.courses_df), top_n, min_score)

\* get_recommendations_for_text after its first statement, f being its outcome
GetRecommendationsForTextBody(f, query_text, top_n, min_score, ties) ==
  IF f.exc # NoExc THEN [e |-> f.e, exc |-> f.exc, result |-> <<>>]
  ELSE IF ~f.e._is_fitted \/ f.e.vectorizer = None
    THEN [e |-> f.e, exc |-> NoExc, result |-> <<>>]
  ELSE IF \/ ~Val(f.e.vectorizer).fitted
          \/ f.e.tfidf_matrix = None
          \/ f.e.courses_df = None
    THEN [e |-> f.e, exc |-> NoExc, result |-> <<>>]
  ELSE [e |-> f.e, exc |-> NoExc,
        result |-> RankForText(f.e, query_text, top_n, min_score, ties)]

\* get_recommendations_for_text
GetRecommendationsForText(e, published, db_ok, query_text, top_n, min_score, ties) ==
  GetRecommendationsForTextBody(EnsureFitted(e, published, db_ok), query_text,
                                top_n, min_score, ties)

(***************************************************************************)
(* get_popular_courses                                                     *)
(***************************************************************************)
\* insert r behind every row that is not less popular
RECURSIVE InsertPopular(_, _)
InsertPopular(r, sorted) ==
  IF sorted = <<>> THEN <<r>>
  ELSE IF \/ Head(sorted).total_enrollments > r.total_enrollments
          \/ /\ Head(sorted).total_enrollments = r.total_enrollments
             /\ Head(sorted).average_rating >= r.average_rating
    THEN <<Head(sorted)>> \o InsertPopular(r, Tail(sorted))
    ELSE <<r>> \o sorted

\* sort_values(by=[total_enrollments, average_rating], ascending=[False, False])
RECURSIVE SortValues(_)
SortValues(df) ==
  IF df = <<>> THEN <<>>
  ELSE InsertPopular(df[Len(df)], SortValues(SubSeq(df, 1, Len(df) - 1)))

PopularCourse(row) ==
  [id |-> row.id, category |-> row.category,
   display |-> DisplayFields(row),
   total_enrollments |-> row.total_enrollments,
   average_rating |-> row.average_rating]

\* sorted_df.head(top_n), top_n >= 0
HeadRows(df, top_n) == SubSeq(df, 1, IF top_n < Len(df) THEN top_n ELSE Len(df))

\* the loop over sorted_df.head(top_n)
PopularCourses(head) == [k \in DOMAIN head |-> PopularCourse(head[k])]

\* a variant of EnsureLoaded that fits the engine when it holds no corpus
EnsureLoadedAndFitted(e, published, db_ok) ==
  IF e.courses_df = None THEN Fit(e, published, db_ok) ELSE Returns(e)

\* "if self.courses_df is None: self.load_data()"
EnsureLoaded(e, published, db_ok) ==
  IF e.courses_df = None THEN LoadData(e, published, db_ok) ELSE Returns(e)

\* get_popular_courses after that statement, l being its outcome
GetPopularCoursesBody(l, top_n) ==
  IF l.exc # NoExc THEN [e |-> l.e, exc |-> l.exc, result |-> <<>>]
  ELSE IF Val(l.e.courses_df) = <<>> THEN [e |-> l.e, exc |-> NoExc, result |-> <<>>]
  ELSE [e |-> l.e, exc |-> NoExc,
        result |-> PopularCourses(HeadRows(SortValues(Val(l.e.courses_df)), top_n))]

\* get_popular_courses
GetPopularCourses(e, published, db_ok, top_n) ==
  GetPopularCoursesBody(EnsureLoaded(e, published, db_ok), top_n)

(***************************************************************************)
(* The module singleton and the views.  engines is the heap of engine       *)
(* objects; _recommender_instance is 0 for None or the place of an engine  *)
(* in the heap.                                                            *)
(***************************************************************************)
\* the new object is bound to the global, f being the outcome of its fit()
NewInstance(heap, f) ==
  [engines |-> Append(heap, f.e), instance |-> Len(heap) + 1, exc |-> f.exc]

\* get_recommender
GetRecommender(heap, instance, published, db_ok) ==
  IF instance = 0 THEN NewInstance(heap, Fit(NewEngine, published, db_ok))
  ELSE [engines |-> heap, instance |-> instance, exc |-> NoExc]

\* the outcome r of a method call on the object at self
MethodOutcome(heap, self, r) ==
  [engines |-> [heap EXCEPT ![self] = r.e], instance |-> self, exc |-> r.exc]

\* "return _recommender_instance.refresh()"
RefreshInstance(heap, self, published, db_ok) ==
  MethodOutcome(heap, self, Refresh(heap[self], published, db_ok))

\* refresh_recommender
RefreshRecommender(heap, instance, published, db_ok) ==
  IF instance = 0
    THEN RefreshInstance(Append(heap, NewEngine), Len(heap) + 1, published, db_ok)
  ELSE RefreshInstance(heap, instance, published, db_ok)

\* the except clauses of RecommendationView.post
RecommendationStatus(exc) ==
  IF exc = NoExc THEN 200 ELSE IF exc = "ValueError" THEN 404 ELSE 500

\* RecommendationView.post after validation: g is the outcome of
\* get_recommender(), q that of recommender.get_recommendations(...)
RecommendationViewResponse(g, q) ==
  IF g.exc # NoExc
    THEN [engines |-> g.engines, instance |-> g.instance, exc |-> g.exc,
          result |-> <<>>, status |-> RecommendationStatus(g.exc)]
  ELSE [engines |-> [g.engines EXCEPT ![g.instance] = q.e],
        instance |-> g.instance, exc |-> q.exc, result |-> q.result,
        status |-> RecommendationStatus(q.exc)]

\* the except clause of TextRecommendationView.post
TextRecommendationStatus(exc) ==
  IF exc = NoExc THEN 200 ELSE 500

\* TextRecommendationView.post with a non-empty query: g is the outcome of
\* get_recommender(), q that of recommender.get_recommendations_for_text(...)
TextRecommendationViewResponse(g, q) ==
  IF g.exc # NoExc
    THEN [engines |-> g.engines, instance |-> g.instance, exc |-> g.exc,
          result |-> <<>>, status |-> TextRecommendationStatus(g.exc)]
  ELSE [engines |-> [g.engines EXCEPT ![g.instance] = q.e],
        instance |-> g.instance, exc |-> q.exc, result |-> q.result,
        status |-> TextRecommendationStatus(q.exc)]

(***************************************************************************)
(* State.                                                                  *)
(***************************************************************************)
VARIABLES
  catalog,                \* the ids of the published courses
  engines,                \* the CourseRecommender objects created so far
  _recommender_instance,  \* the module global
  ret,                    \* the call that is returning: arguments and outcome
  threads                 \* the position and locals of each concurrent request

vars == <<catalog, engines, _recommender_instance, ret, threads>>

NoRet ==
  [op |-> "none", course_id |-> "", top_n |-> 0, exclude_same_category |-> FALSE,
   min_score |-> 0, query_text |-> {}, was_fitted |-> FALSE,
   corpus_before |-> "none",
   exc |-> NoExc, result |-> <<>>, status |-> 0]

\* a thread that serves no request: pc is its position, self the engine whose
\* method it executes, cont the position the fit() it runs returns to, and
\* idx, sim_scores, corpus what its query has read so far
IdleThread ==
  [pc |-> "idle", request |-> "none", self |-> 0, cont |-> "none",
   course_id |-> "", idx |-> None, sim_scores |-> None, corpus |-> None,
   exc |-> NoExc, result |-> <<>>]

Init ==
  /\ catalog = {}
  /\ engines = <<>>
  /\ _recommender_instance = 0
  /\ ret = NoRet
  /\ threads = [t \in 1..NumThreads |-> IdleThread]

\* the engine the module global names
Instance == engines[_recommender_instance]

\* what the singleton holds as courses_df when a call starts; a call records
\* it with its arguments
CorpusBefore ==
  IF _recommender_instance = 0 THEN "no_engine"
  ELSE IF Instance.courses_df = None THEN "none"
  ELSE IF Instance.courses_df = Some(<<>>) THEN "empty"
  ELSE "held"

(***************************************************************************)
(* The catalog.  Course.Meta.ordering is -created_at: the query returns    *)
(* the published courses newest first.                                     *)
(***************************************************************************)
NewestFirst == <<"D", "C", "B", "A">>

\* Course.objects.filter(is_published=True)
Published == SelectSeq(NewestFirst, LAMBDA id : id \in catalog)

\* the outcomes of the catalog read of a call: it can fail where there is one
ReadOutcomes(reads) == IF reads THEN BOOLEAN ELSE {TRUE}

PublishCourse(id) ==
  /\ ret = NoRet
  /\ Cardinality(catalog) < MaxCatalog
  /\ id \notin catalog
  /\ catalog' = catalog \cup {id}
  /\ UNCHANGED <<engines, _recommender_instance, ret, threads>>

UnpublishCourse(id) ==
  /\ ret = NoRet
  /\ id \in catalog
  /\ catalog' = catalog \ {id}
  /\ UNCHANGED <<engines, _recommender_instance, ret, threads>>

\* the caller takes the outcome of the call
Return ==
  /\ ret # NoRet
  /\ ret' = NoRet
  /\ UNCHANGED <<catalog, engines, _recommender_instance, threads>>

(***************************************************************************)
(* Sequential calls: each action is one whole call, made when the call     *)
(* before it has returned.                                                 *)
(***************************************************************************)
TopNs == 0..MaxTopN

\* the values of top_n the serializer of RecommendationView lets through
\* (min_value=1), up to the bound
ValidTopNs == 1..MaxTopN

CallGetRecommender ==
  /\ ret = NoRet
  /\ \E db_ok \in ReadOutcomes(_recommender_instance = 0) :
     \E g \in {GetRecommender(engines, _recommender_instance, Published, db_ok)} :
       /\ engines' = g.engines
       /\ _recommender_instance' = g.instance
       /\ ret' = [NoRet EXCEPT !.op = "get_recommender", !.exc = g.exc]
  /\ UNCHANGED <<catalog, threads>>

CallRefreshRecommender ==
  /\ ret = NoRet
  /\ \E db_ok \in BOOLEAN :
     \E g \in {RefreshRecommender(engines, _recommender_instance, Published, db_ok)} :
       /\ engines' = g.engines
       /\ _recommender_instance' = g.instance
       /\ ret' = [NoRet EXCEPT !.op = "refresh", !.exc = g.exc,
                    !.was_fitted = (_recommender_instance # 0 /\ Instance._is_fitted),
                    !.corpus_before = CorpusBefore]
  /\ UNCHANGED <<catalog, threads>>

\* whether fit() on e reads the catalog
FitLoads(e) == e.courses_df = None \/ e.courses_df = Some(<<>>)

CallFit ==
  /\ ret = NoRet
  /\ _recommender_instance # 0
  /\ \E db_ok \in ReadOutcomes(FitLoads(Instance)) :
     \E f \in {Fit(Instance, Published, db_ok)} :
       /\ engines' = [engines EXCEPT ![_recommender_instance] = f.e]
       /\ ret' = [NoRet EXCEPT !.op = "fit", !.exc = f.exc,
                    !.was_fitted = Instance._is_fitted,
                    !.corpus_before = CorpusBefore]
  /\ UNCHANGED <<catalog, _recommender_instance, threads>>

CallGetRecommendations ==
  /\ ret = NoRet
  /\ _recommender_instance # 0
  /\ \E db_ok \in ReadOutcomes(~Instance._is_fitted /\ FitLoads(Instance)) :
     \E f \in {EnsureFitted(Instance, Published, db_ok)} :
     \E course_id \in CourseIds, top_n \in TopNs,
        exclude_same_category \in BOOLEAN, min_score \in MinScores :
     \E q \in {GetRecommendationsBody(f, course_id, top_n,
                                      exclude_same_category, min_score)} :
       /\ engines' = [engines EXCEPT ![_recommender_instance] = q.e]
       /\ ret' = [NoRet EXCEPT !.op = "get_recommendations",
                    !.course_id = course_id, !.top_n = top_n,
                    !.exclude_same_category = exclude_same_category,
                    !.min_score = min_score,
                    !.was_fitted = Instance._is_fitted,
                    !.corpus_before = CorpusBefore,
                    !.exc = q.exc, !.result = q.result]
  /\ UNCHANGED <<catalog, _recommender_instance, threads>>

CallGetRecommendationsForText ==
  /\ ret = NoRet
  /\ _recommender_instance # 0
  /\ \E db_ok \in ReadOutcomes(~Instance._is_fitted /\ FitLoads(Instance)) :
     \E f \in {EnsureFitted(Instance, Published, db_ok)} :
     \E query_text \in DirectQueries, top_n \in TopNs, min_score \in MinScores,
        ties \in TieOrders :
     \E q \in {GetRecommendationsForTextBody(f, query_text, top_n,
                                             min_score, ties)} :
       /\ engines' = [engines EXCEPT ![_recommender_instance] = q.e]
       /\ ret' = [NoRet EXCEPT !.op = "get_recommendations_for_text",
                    !.query_text = query_text, !.top_n = top_n,
                    !.min_score = min_score,
                    !.was_fitted = Instance._is_fitted,
                    !.corpus_before = CorpusBefore,
                    !.exc = q.exc, !.result = q.result]
  /\ UNCHANGED <<catalog, _recommender_instance, threads>>

CallGetPopularCourses ==
  /\ ret = NoRet
  /\ _recommender_instance # 0
  /\ \E db_ok \in ReadOutcomes(Instance.courses_df = None) :
     \E l \in {EnsureLoaded(Instance, Published, db_ok)} :
     \E top_n \in TopNs :
     \E q \in {GetPopularCoursesBody(l, top_n)} :
       /\ engines' = [engines EXCEPT ![_recommender_instance] = q.e]
       /\ ret' = [NoRet EXCEPT !.op = "get_popular_courses",
                    !.top_n = top_n,
                    !.was_fitted = Instance._is_fitted,
                    !.corpus_before = CorpusBefore,
                    !.exc = q.exc, !.result = q.result]
  /\ UNCHANGED <<catalog, _recommender_instance, threads>>

\* whether a view's request reads the catalog
ViewLoads ==
  \/ _recommender_instance = 0
  \/ ~Instance._is_fitted /\ FitLoads(Instance)

\* the engine get_recommender() returned, and its fit() when it is not fitted
ViewEnsureFitted(g, published, db_ok) ==
  IF g.exc # NoExc THEN [e |-> g.engines[g.instance], exc |-> g.exc]
  ELSE EnsureFitted(g.engines[g.instance], published, db_ok)

PostRecommendation ==
  /\ ret = NoRet
  /\ \E db_ok \in ReadOutcomes(ViewLoads) :
     \E g \in {GetRecommender(engines, _recommender_instance, Published, db_ok)} :
     \E f \in {ViewEnsureFitted(g, Published, db_ok)} :
     \E course_id \in CourseIds, top_n \in ValidTopNs,
        exclude_same_category \in BOOLEAN :
     \E v \in {RecommendationViewResponse(g,
                 GetRecommendationsBody(f, course_id, top_n,
                                        exclude_same_category, 0))} :
       /\ engines' = v.engines
       /\ _recommender_instance' = v.instance
       /\ ret' = [NoRet EXCEPT !.op = "RecommendationView.post",
                    !.course_id = course_id, !.top_n = top_n,
                    !.exclude_same_category = exclude_same_category,
                    !.exc = v.exc, !.result = v.result,
                    !.status = v.status]
  /\ UNCHANGED <<catalog, threads>>

PostTextRecommendation ==
  /\ ret = NoRet
  /\ \E db_ok \in ReadOutcomes(ViewLoads) :
     \E g \in {GetRecommender(engines, _recommender_instance, Published, db_ok)} :
     \E f \in {ViewEnsureFitted(g, Published, db_ok)} :
     \E query \in Queries, top_n \in TopNs, ties \in TieOrders :
     \E v \in {TextRecommendationViewResponse(g,
                 GetRecommendationsForTextBody(f, query, top_n, 0, ties))} :
       /\ engines' = v.engines
       /\ _recommender_instance' = v.instance
       /\ ret' = [NoRet EXCEPT !.op = "TextRecommendationView.post",
                    !.query_text = query, !.top_n = top_n,
                    !.exc = v.exc, !.result = v.result,
                    !.status = v.status]
  /\ UNCHANGED <<catalog, threads>>

Next ==
  \/ Return
  \/ \E id \in CourseIds : PublishCourse(id)
  \/ \E id \in CourseIds : UnpublishCourse(id)
  \/ CallGetRecommender
  \/ CallRefreshRecommender
  \/ CallFit
  \/ CallGetRecommendations
  \/ CallGetRecommendationsForText
  \/ CallGetPopularCourses
  \/ PostRecommendation
  \/ PostTextRecommendation

Spec == Init /\ [][Next]_vars

(***************************************************************************)
(* Concurrent requests.  Each thread serves one request: a recommendation  *)
(* request (get_recommender(), then get_recommendations with the           *)
(* serializer's defaults) or refresh_recommender().  A step is one         *)
(* statement of the code, or a few that follow each other; nothing locks   *)
(* the module global or the engine, so the steps of the threads interleave *)
(* freely.                                                                 *)
(***************************************************************************)
Threads == 1..NumThreads

\* RecommendationRequestSerializer.top_n, default
DefaultTopN == 10

\* the thread raises exc out of its request
Raised(thread, exc) == [thread EXCEPT !.pc = "done", !.exc = exc]

\* the fit() of the thread returns to its caller
FitReturned(thread) == [thread EXCEPT !.pc = thread.cont, !.cont = "none"]

\* RecommendationView.post enters get_recommender()
StartRecommendation(t) ==
  /\ threads[t].pc = "idle"
  /\ threads' = [threads EXCEPT ![t].pc = "get_recommender",
                                ![t].request = "recommend"]
  /\ UNCHANGED <<catalog, engines, _recommender_instance, ret>>

\* a caller enters refresh_recommender()
StartRefresh(t) ==
  /\ threads[t].pc = "idle"
  /\ threads' = [threads EXCEPT ![t].pc = "refresh_recommender",
                                ![t].request = "refresh"]
  /\ UNCHANGED <<catalog, engines, _recommender_instance, ret>>

\* "if _recommender_instance is None"
GetRecommenderCheck(t) ==
  /\ threads[t].pc = "get_recommender"
  /\ threads' = [threads EXCEPT ![t].pc =
                   IF _recommender_instance = 0 THEN "new_instance"
                   ELSE "return_instance"]
  /\ UNCHANGED <<catalog, engines, _recommender_instance, ret>>

\* "_recommender_instance = CourseRecommender()"
GetRecommenderNew(t) ==
  /\ threads[t].pc = "new_instance"
  /\ engines' = Append(engines, NewEngine)
  /\ _recommender_instance' = Len(engines) + 1
  /\ threads' = [threads EXCEPT ![t].pc = "first_fit"]
  /\ UNCHANGED <<catalog, ret>>

\* "_recommender_instance.fit()": the call, on the object the global names now
GetRecommenderFit(t) ==
  /\ threads[t].pc = "first_fit"
  /\ threads' = [threads EXCEPT ![t].pc = "fit",
                                ![t].self = _recommender_instance,
                                ![t].cont = "return_instance"]
  /\ UNCHANGED <<catalog, engines, _recommender_instance, ret>>

\* "return _recommender_instance", and the view calls get_recommendations on it
GetRecommenderReturn(t) ==
  /\ threads[t].pc = "return_instance"
  /\ threads' = [threads EXCEPT ![t].pc = "get_recommendations",
                                ![t].self = _recommender_instance]
  /\ UNCHANGED <<catalog, engines, _recommender_instance, ret>>

\* refresh_recommender: "if _recommender_instance is None"
RefreshRecommenderCheck(t) ==
  /\ threads[t].pc = "refresh_recommender"
  /\ threads' = [threads EXCEPT ![t].pc =
                   IF _recommender_instance = 0 THEN "refresh_new"
                   ELSE "refresh_call"]
  /\ UNCHANGED <<catalog, engines, _recommender_instance, ret>>

\* refresh_recommender: "_recommender_instance = CourseRecommender()"
RefreshRecommenderNew(t) ==
  /\ threads[t].pc = "refresh_new"
  /\ engines' = Append(engines, NewEngine)
  /\ _recommender_instance' = Len(engines) + 1
  /\ threads' = [threads EXCEPT ![t].pc = "refresh_call"]
  /\ UNCHANGED <<catalog, ret>>

\* refresh_recommender: "_recommender_instance.refresh()", the call
RefreshRecommenderCall(t) ==
  /\ threads[t].pc = "refresh_call"
  /\ threads' = [threads EXCEPT ![t].pc = "refresh",
                                ![t].self = _recommender_instance]
  /\ UNCHANGED <<catalog, engines, _recommender_instance, ret>>

\* refresh: the four assignments, then "return self.fit()"
RefreshClear(t) ==
  /\ threads[t].pc = "refresh"
  /\ engines' = [engines EXCEPT ![threads[t].self] =
                   [@ EXCEPT !._is_fitted = FALSE, !.courses_df = None,
                             !.tfidf_matrix = None, !.cosine_sim = None]]
  /\ threads' = [threads EXCEPT ![t].pc = "fit", ![t].cont = "done"]
  /\ UNCHANGED <<catalog, _recommender_instance, ret>>

\* the thread after the first statements of fit, l being the outcome of
\* load_data
FitLoadStep(thread, l) ==
  IF l.exc # NoExc THEN Raised(thread, l.exc)
  ELSE IF Val(l.e.courses_df) = <<>> THEN FitReturned(thread)
  ELSE [thread EXCEPT !.pc = "fit_transform"]

\* fit: "if self.courses_df is None or self.courses_df.empty: self.load_data()"
\* and "if self.courses_df.empty: self._is_fitted = False; return self"
FitLoad(t) ==
  /\ threads[t].pc = "fit"
  /\ \E db_ok \in ReadOutcomes(FitLoads(engines[threads[t].self])) :
     \E l \in {IF FitLoads(engines[threads[t].self])
                 THEN LoadData(engines[threads[t].self], Published, db_ok)
                 ELSE Returns(engines[threads[t].self])} :
       /\ engines' = [engines EXCEPT ![threads[t].self] =
                        IF l.exc = NoExc /\ l.e.courses_df = Some(<<>>)
                          THEN [l.e EXCEPT !._is_fitted = FALSE]
                        ELSE l.e]
       /\ threads' = [threads EXCEPT ![t] = FitLoadStep(threads[t], l)]
  /\ UNCHANGED <<catalog, _recommender_instance, ret>>

\* the outcome of fit_transform on the combined_text column the engine has now
FitTransformNow(e) ==
  IF e.courses_df = None
    THEN [exc |-> "TypeError", vectorizer |-> UnfittedVectorizer, X |-> <<>>]
  ELSE IF Val(e.courses_df) = <<>>
    THEN [exc |-> "KeyError", vectorizer |-> UnfittedVectorizer, X |-> <<>>]
  ELSE FitTransform(CombinedTextColumn(Val(e.courses_df)))

\* fit: "self.vectorizer = TfidfVectorizer(...)" and
\* "self.tfidf_matrix = self.vectorizer.fit_transform(...)"
FitVectorize(t) ==
  /\ threads[t].pc = "fit_transform"
  /\ \E ft \in {FitTransformNow(engines[threads[t].self])} :
       /\ engines' = [engines EXCEPT ![threads[t].self] =
                        IF ft.exc # NoExc
                          THEN [@ EXCEPT !.vectorizer = Some(UnfittedVectorizer)]
                        ELSE [@ EXCEPT !.vectorizer = Some(ft.vectorizer),
                                       !.tfidf_matrix = Some(ft.X)]]
       /\ threads' = [threads EXCEPT ![t] =
                        IF ft.exc # NoExc THEN Raised(@, ft.exc)
                        ELSE [@ EXCEPT !.pc = "linear_kernel"]]
  /\ UNCHANGED <<catalog, _recommender_instance, ret>>

\* fit: "self.cosine_sim = linear_kernel(self.tfidf_matrix, self.tfidf_matrix)"
FitKernel(t) ==
  /\ threads[t].pc = "linear_kernel"
  /\ IF engines[threads[t].self].tfidf_matrix = None
       THEN /\ threads' = [threads EXCEPT ![t] = Raised(@, "ValueError")]
            /\ UNCHANGED engines
       ELSE /\ engines' = [engines EXCEPT ![threads[t].self].cosine_sim =
                             Some(LinearKernel(
                                    Val(engines[threads[t].self].tfidf_matrix),
                                    Val(engines[threads[t].self].tfidf_matrix)))]
            /\ threads' = [threads EXCEPT ![t].pc = "set_fitted"]
  /\ UNCHANGED <<catalog, _recommender_instance, ret>>

\* fit: "self._is_fitted = True" and "return self"
FitDone(t) ==
  /\ threads[t].pc = "set_fitted"
  /\ engines' = [engines EXCEPT ![threads[t].self]._is_fitted = TRUE]
  /\ threads' = [threads EXCEPT ![t] = FitReturned(@)]
  /\ UNCHANGED <<catalog, _recommender_instance, ret>>

\* get_recommendations: "if not self._is_fitted: self.fit()"
QueryEnsureFitted(t) ==
  /\ threads[t].pc = "get_recommendations"
  /\ threads' = [threads EXCEPT ![t] =
                   IF engines[threads[t].self]._is_fitted
                     THEN [@ EXCEPT !.pc = "check_fitted"]
                   ELSE [@ EXCEPT !.pc = "fit", !.cont = "check_fitted"]]
  /\ UNCHANGED <<catalog, engines, _recommender_instance, ret>>

\* get_recommendations: "if not self._is_fitted: return []"
QueryCheckFitted(t) ==
  /\ threads[t].pc = "check_fitted"
  /\ threads' = [threads EXCEPT ![t].pc =
                   IF engines[threads[t].self]._is_fitted THEN "lookup"
                   ELSE "done"]
  /\ UNCHANGED <<catalog, engines, _recommender_instance, ret>>

\* the thread after "if course_id not in self.course_indices.index: raise"
\* and "idx = self.course_indices[course_id]"
LookupStep(thread, course_indices, course_id) ==
  IF course_indices = None THEN Raised(thread, "AttributeError")
  ELSE IF course_id \notin DOMAIN Val(course_indices)
    THEN Raised(thread, "ValueError")
  ELSE [thread EXCEPT !.pc = "read_matrix", !.course_id = course_id,
                      !.idx = Some(Val(course_indices)[course_id])]

QueryLookup(t) ==
  /\ threads[t].pc = "lookup"
  /\ \E course_id \in CourseIds :
       threads' = [threads EXCEPT ![t] =
                     LookupStep(@, engines[threads[t].self].course_indices,
                                course_id)]
  /\ UNCHANGED <<catalog, engines, _recommender_instance, ret>>

\* the thread after "sim_scores = list(enumerate(self.cosine_sim[idx]))"
ReadMatrixStep(thread, cosine_sim) ==
  IF cosine_sim = None THEN Raised(thread, "TypeError")
  ELSE IF Val(thread.idx) + 1 > Len(Val(cosine_sim))
    THEN Raised(thread, "IndexError")
  ELSE [thread EXCEPT !.pc = "rank",
                      !.sim_scores = Some(Val(cosine_sim)[Val(thread.idx) + 1])]

QueryReadMatrix(t) ==
  /\ threads[t].pc = "read_matrix"
  /\ threads' = [threads EXCEPT ![t] =
                   ReadMatrixStep(@, engines[threads[t].self].cosine_sim)]
  /\ UNCHANGED <<catalog, engines, _recommender_instance, ret>>

\* the thread after the rest of get_recommendations, which reads
\* self.courses_df.iloc[idx] and the row of every other entry of sim_scores
RankStep(thread, courses_df) ==
  IF courses_df = None THEN Raised(thread, "AttributeError")
  ELSE IF \/ Val(thread.idx) + 1 > Len(Val(courses_df))
          \/ Len(Val(thread.sim_scores)) > Len(Val(courses_df))
    THEN Raised(thread, "IndexError")
  ELSE [thread EXCEPT !.pc = "done", !.corpus = courses_df,
                      !.result = RankScores(Val(courses_df), Val(thread.sim_scores),
                                            Val(thread.idx), DefaultTopN, FALSE, 0)]

QueryRank(t) ==
  /\ threads[t].pc = "rank"
  /\ threads' = [threads EXCEPT ![t] =
                   RankStep(@, engines[threads[t].self].courses_df)]
  /\ UNCHANGED <<catalog, engines, _recommender_instance, ret>>

\* the editor publishes the courses in the order of their creation
PublishOldest ==
  \E id \in CourseIds :
    /\ \A k \in DOMAIN NewestFirst :
         NewestFirst[k] = id =>
           \A j \in (k + 1)..Len(NewestFirst) : NewestFirst[j] \in catalog
    /\ PublishCourse(id)

\* the editor withdraws the course published last
UnpublishNewest ==
  \E id \in CourseIds :
    /\ \A k \in DOMAIN NewestFirst :
         NewestFirst[k] = id =>
           \A j \in 1..(k - 1) : NewestFirst[j] \notin catalog
    /\ UnpublishCourse(id)

NextConc ==
  \/ PublishOldest
  \/ UnpublishNewest
  \/ \E t \in Threads : StartRecommendation(t)
  \/ \E t \in Threads : StartRefresh(t)
  \/ \E t \in Threads : GetRecommenderCheck(t)
  \/ \E t \in Threads : GetRecommenderNew(t)
  \/ \E t \in Threads : GetRecommenderFit(t)
  \/ \E t \in Threads : GetRecommenderReturn(t)
  \/ \E t \in Threads : RefreshRecommenderCheck(t)
  \/ \E t \in Threads : RefreshRecommenderNew(t)
  \/ \E t \in Threads : RefreshRecommenderCall(t)
  \/ \E t \in Threads : RefreshClear(t)
  \/ \E t \in Threads : FitLoad(t)
  \/ \E t \in Threads : FitVectorize(t)
  \/ \E t \in Threads : FitKernel(t)
  \/ \E t \in Threads : FitDone(t)
  \/ \E t \in Threads : QueryEnsureFitted(t)
  \/ \E t \in Threads : QueryCheckFitted(t)
  \/ \E t \in Threads : QueryLookup(t)
  \/ \E t \in Threads : QueryReadMatrix(t)
  \/ \E t \in Threads : QueryRank(t)

SpecConc == Init /\ [][NextConc]_vars

(***************************************************************************)
(* Properties.                                                             *)
(***************************************************************************)
Min(a, b) == IF a < b THEN a ELSE b

\* the ids of a list of recommendations
ResultIds(result) == {result[k].id : k \in DOMAIN result}

\* the similarity matrix a fit computes from the corpus df, <<>> when it raises
MatrixOf(df) ==
  LET ft == FitTransform(CombinedTextColumn(df))
  IN IF ft.exc # NoExc THEN <<>> ELSE LinearKernel(ft.X, ft.X)

\* the stored score of course id for the query course in engine e
ScoreOf(e, course_id, id) ==
  Val(e.cosine_sim)[Val(e.course_indices)[course_id] + 1]
                   [Val(e.course_indices)[id] + 1]

\* the courses of e that are not the query course, reach min_score and pass
\* the category filter when it is set
Eligible(e, course_id, exclude_same_category, min_score) ==
  {id \in DOMAIN Val(e.course_indices) :
     /\ id # course_id
     /\ ScoreOf(e, course_id, id) >= min_score
     /\ exclude_same_category =>
          CourseTable[id].category # CourseTable[course_id].category}

\* the rows of e whose similarity to the query text reaches min_score
EligibleForText(e, query_text, min_score) ==
  LET scores == QuerySimilarity(TransformQuery(Val(e.vectorizer), query_text),
                                Val(e.tfidf_matrix))
  IN {k \in DOMAIN scores : scores[k] >= min_score}

\* get_recommendations, called directly or by the view, has returned the
\* ranking of a course of the fitted engine's corpus
AnsweredSimilar ==
  /\ ret.op \in {"get_recommendations", "RecommendationView.post"}
  /\ ret.exc = NoExc
  /\ _recommender_instance # 0
  /\ Instance._is_fitted
  /\ ret.course_id \in DOMAIN Val(Instance.course_indices)

\* get_recommendations_for_text, called directly or by the view, has returned
\* the ranking of the fitted engine
AnsweredText ==
  /\ ret.op \in {"get_recommendations_for_text", "TextRecommendationView.post"}
  /\ ret.exc = NoExc
  /\ _recommender_instance # 0
  /\ Instance._is_fitted

\* s is an initial part of r
IsPrefix(s, r) == Len(s) <= Len(r) /\ s = SubSeq(r, 1, Len(s))

\* the thread executes fit()
InFit(t) == threads[t].pc \in {"fit", "fit_transform", "linear_kernel", "set_fitted"}

\* C1: when refresh() runs concurrently with get_recommendations on the same
\* engine, a query that found its course in the index ends without an error
\* from a missing or mismatched matrix, and the row index, the matrix row and
\* the corpus it read belong to one fit: the index is the place of the course
\* in the corpus read, and the row is the row a fit of that corpus computes.
C1_QueryReadsOneFit ==
  \A t \in Threads :
    ( /\ threads[t].pc = "done"
      /\ threads[t].request = "recommend"
      /\ threads[t].idx # None
      /\ \E u \in Threads : threads[u].request = "refresh" )
    => /\ threads[t].exc = NoExc
       /\ Val(threads[t].corpus)[Val(threads[t].idx) + 1].id = threads[t].course_id
       /\ Val(threads[t].sim_scores)
            = MatrixOf(Val(threads[t].corpus))[Val(threads[t].idx) + 1]

\* C2: a refresh() that raises on an engine that was fitted leaves the engine
\* fitted, with the corpus, the index and the similarity matrix it had before
\* the call.
C2_FailedRefreshKeepsEngine ==
  [][( /\ ret = NoRet
       /\ ret'.op = "refresh"
       /\ ret'.was_fitted
       /\ ret'.exc # NoExc )
     => /\ Instance'._is_fitted
        /\ Instance'.courses_df = Instance.courses_df
        /\ Instance'.course_indices = Instance.course_indices
        /\ Instance'.cosine_sim = Instance.cosine_sim]_vars

\* C3: while threads call get_recommender() and then a query before the
\* singleton is built, at most one of them executes fit() at any time, and
\* only one engine is ever built.
C3_OneFitAtATime ==
  (\A t \in Threads : threads[t].request # "refresh")
    => /\ Cardinality({t \in Threads : InFit(t)}) <= 1
       /\ Len(engines) <= 1

\* C4: a caller of get_recommender() does not hold the instance while the
\* first fit() of that instance, started by another caller, is in progress.
C4_ReturnedAfterFirstFit ==
  \A t \in Threads, u \in Threads :
    ( /\ threads[t].request = "recommend"
      /\ threads[t].pc = "get_recommendations" )
    => ~ ( /\ u # t
           /\ InFit(u)
           /\ threads[u].cont = "return_instance"
           /\ threads[u].self = threads[t].self )

\* C5: under sequential calls, an engine whose fitted flag is set has a corpus
\* of N rows, a complete N x N similarity matrix, an index that maps exactly
\* the N ids of the corpus to their rows 0..N-1, and the matrix is the one a
\* fit computes from that corpus, row by row.
C5_FittedIsComplete ==
  \A k \in DOMAIN engines :
    engines[k]._is_fitted =>
      /\ engines[k].courses_df # None
      /\ engines[k].cosine_sim # None
      /\ engines[k].course_indices # None
      /\ LET df == Val(engines[k].courses_df)
             sim == Val(engines[k].cosine_sim)
             ix == Val(engines[k].course_indices)
         IN /\ Len(df) >= 1
            /\ DOMAIN sim = 1..Len(df)
            /\ \A i \in DOMAIN sim : DOMAIN sim[i] = 1..Len(df)
            /\ DOMAIN ix = {df[i].id : i \in DOMAIN df}
            /\ \A i \in DOMAIN df : ix[df[i].id] = i - 1
            /\ sim = MatrixOf(df)

\* C5 witness: a fitted engine refreshed over a corpus of three courses
C5_Witness ==
  /\ ret.op = "refresh"
  /\ ret.was_fitted
  /\ ret.exc = NoExc
  /\ Instance._is_fitted
  /\ Len(Val(Instance.courses_df)) = 3

\* C6: get_recommendations on a fitted engine with a course_id that its index
\* does not hold raises ValueError, returns no list and leaves every engine
\* as it was.
C6_UnknownIdRaises ==
  [][( /\ ret = NoRet
       /\ ret'.op = "get_recommendations"
       /\ Instance._is_fitted
       /\ ret'.course_id \notin DOMAIN Val(Instance.course_indices) )
     => /\ ret'.exc = "ValueError"
        /\ ret'.result = <<>>
        /\ engines' = engines]_vars

\* C6 witness: the call raised ValueError for an id outside a fitted index
C6_Witness ==
  /\ ret.op = "get_recommendations"
  /\ ret.was_fitted
  /\ ret.exc = "ValueError"
  /\ Instance._is_fitted
  /\ ret.course_id \notin DOMAIN Val(Instance.course_indices)

\* C7: when no course is published and the engine's corpus is empty, a
\* recommendation request for a course id ends in an error: the method raises
\* and the view does not answer 200.
C7_EmptyCorpusIsAnError ==
  ( /\ ret.op \in {"get_recommendations", "RecommendationView.post"}
    /\ catalog = {}
    /\ _recommender_instance # 0
    /\ Instance.courses_df = Some(<<>>) )
  => /\ ret.exc # NoExc
     /\ ret.op = "RecommendationView.post" => ret.status # 200

\* C8: the list get_recommendations returns for course X holds no entry whose
\* id is X, for every top_n, exclude_same_category and min_score.
C8_NeverContainsInput ==
  ret.op \in {"get_recommendations", "RecommendationView.post"} =>
    \A k \in DOMAIN ret.result : ret.result[k].id # ret.course_id

\* C8 witness: the ranking for A starts with D, whose text is that of A and
\* whose score equals the score of A with itself
C8_Witness ==
  /\ AnsweredSimilar
  /\ ret.course_id = "A"
  /\ ret.result # <<>>
  /\ ret.result[1].id = "D"
  /\ ret.result[1].similarity_score = Scale

\* C9: with exclude_same_category set, no returned course has the category of
\* the query course, and the list is an initial part of the ranking without
\* the filter from which the courses of that category are removed; it is the
\* whole of it when it is shorter than top_n.
C9_CategoryFilter ==
  (AnsweredSimilar /\ ret.exclude_same_category) =>
    LET unfiltered == RankSimilar(Instance, ret.course_id,
                                  Len(Val(Instance.courses_df)), FALSE,
                                  ret.min_score)
        others == SelectSeq(unfiltered,
                    LAMBDA r : r.category # CourseTable[ret.course_id].category)
    IN /\ \A k \in DOMAIN ret.result :
            ret.result[k].category # CourseTable[ret.course_id].category
       /\ IsPrefix(ret.result, others)
       /\ Len(ret.result) < ret.top_n => ret.result = others
       /\ ResultIds(others) = Eligible(Instance, ret.course_id, TRUE, ret.min_score)

\* C9 witness: the corpus holds D, of the category of the query course A, and
\* the filtered list still returns a course of another category
C9_Witness ==
  /\ AnsweredSimilar
  /\ ret.exclude_same_category
  /\ ret.course_id = "A"
  /\ "D" \in DOMAIN Val(Instance.course_indices)
  /\ ret.result # <<>>

\* C10: the list either query returns has min(top_n, number of eligible
\* courses) entries for every top_n >= 0; top_n = 0 gives the empty list.
C10_LengthIsMin ==
  /\ AnsweredSimilar =>
       Len(ret.result) =
         Min(ret.top_n,
             Cardinality(Eligible(Instance, ret.course_id,
                                  ret.exclude_same_category, ret.min_score)))
  /\ AnsweredText =>
       Len(ret.result) =
         Min(ret.top_n,
             Cardinality(EligibleForText(Instance, ret.query_text, ret.min_score)))

\* the row of course id in the corpus of engine e
RowOf(e, id) == Val(e.course_indices)[id]

\* entry a ranks before entry b: a higher score, or the same score and a
\* lower row of the corpus
Outranks(e, a, b) ==
  \/ a.similarity_score > b.similarity_score
  \/ /\ a.similarity_score = b.similarity_score
     /\ RowOf(e, a.id) < RowOf(e, b.id)

\* C11: the list get_recommendations returns is in descending order of score,
\* entries of equal score are in the order of their corpus rows, and every
\* eligible course that is not in the list ranks behind every entry of it.
C11_RankedByScoreThenLoadOrder ==
  AnsweredSimilar =>
    /\ \A k \in 1..(Len(ret.result) - 1) :
         Outranks(Instance, ret.result[k], ret.result[k + 1])
    /\ \A id \in Eligible(Instance, ret.course_id, ret.exclude_same_category,
                          ret.min_score) \ ResultIds(ret.result) :
       \A k \in DOMAIN ret.result :
         Outranks(Instance, ret.result[k],
                  [id |-> id,
                   similarity_score |-> ScoreOf(Instance, ret.course_id, id)])

\* C11 witness: a list of two entries of equal score
C11_Witness ==
  /\ AnsweredSimilar
  /\ Len(ret.result) = 2
  /\ ret.result[1].similarity_score = ret.result[2].similarity_score

\* C12: the list get_recommendations_for_text returns is in descending order
\* of score, and entries of equal score are in the order of their corpus rows,
\* the lower row first.
C12_TextRankedByScoreThenLoadOrder ==
  AnsweredText =>
    \A k \in 1..(Len(ret.result) - 1) :
      Outranks(Instance, ret.result[k], ret.result[k + 1])

\* the rows (from 1) of the entries of a list of recommendations
ResultRows(e, result) == {RowOf(e, result[k].id) + 1 : k \in DOMAIN result}

\* C13: for both queries no entry of the list has a score below min_score, the
\* entries are eligible courses, and a list shorter than top_n holds every
\* eligible course: a course that reaches min_score is left out only by the
\* other rules (the query course, the category filter, top_n).
C13_MinScore ==
  /\ AnsweredSimilar =>
       /\ \A k \in DOMAIN ret.result :
            ret.result[k].similarity_score >= ret.min_score
       /\ ResultIds(ret.result) \subseteq
            Eligible(Instance, ret.course_id, ret.exclude_same_category,
                     ret.min_score)
       /\ Len(ret.result) < ret.top_n =>
            Eligible(Instance, ret.course_id, ret.exclude_same_category,
                     ret.min_score) \subseteq ResultIds(ret.result)
  /\ AnsweredText =>
       /\ \A k \in DOMAIN ret.result :
            ret.result[k].similarity_score >= ret.min_score
       /\ ResultRows(Instance, ret.result) \subseteq
            EligibleForText(Instance, ret.query_text, ret.min_score)
       /\ Len(ret.result) < ret.top_n =>
            EligibleForText(Instance, ret.query_text, ret.min_score)
              \subseteq ResultRows(Instance, ret.result)

\* C13 witness: with min_score 0.5 and top_n 2 the list has one entry, the
\* other courses of the corpus being below min_score
C13_Witness ==
  /\ AnsweredSimilar
  /\ ret.min_score = 50
  /\ ret.top_n = 2
  /\ ~ret.exclude_same_category
  /\ Len(ret.result) = 1
  /\ Len(Val(Instance.courses_df)) = 3

\* the step is a call whose fit() reads the catalog: refresh(), the first fit
\* of get_recommender(), or fit() (called directly or by a query on an
\* unfitted engine) on an engine that holds no corpus or an empty one
FitReadsCatalog ==
  \/ ret'.op = "refresh"
  \/ ret'.op = "get_recommender" /\ _recommender_instance = 0
  \/ /\ ret'.op = "fit"
     /\ FitLoads(Instance)
  \/ /\ ret'.op \in {"get_recommendations", "get_recommendations_for_text"}
     /\ ~Instance._is_fitted
     /\ FitLoads(Instance)

\* C14 as stated: every fit() or refresh() that returns while the catalog has
\* no published course leaves the engine unfitted and without a TF-IDF or
\* similarity matrix.
C14_FitOfEmptyCatalog ==
  ( /\ ret.op \in {"fit", "refresh"}
    /\ ret.exc = NoExc
    /\ catalog = {} )
  => /\ ~Instance._is_fitted
     /\ Instance.tfidf_matrix = None
     /\ Instance.cosine_sim = None

\* C14, amended: a fit() that reads the catalog (the engine holds no corpus or
\* an empty one: a first fit, a refresh()) while the catalog has no published
\* course leaves the engine with an empty corpus, unfitted and without a
\* TF-IDF or similarity matrix.
C14_LoadingFitOfEmptyCatalog ==
  [][( /\ ret = NoRet
       /\ catalog = {}
       /\ ret'.exc = NoExc
       /\ FitReadsCatalog )
     => /\ Instance'.courses_df = Some(<<>>)
        /\ ~Instance'._is_fitted
        /\ Instance'.tfidf_matrix = None
        /\ Instance'.cosine_sim = None]_vars

\* C14 witness: refresh() of a fitted engine after the catalog became empty
C14_Witness ==
  /\ ret.op = "refresh"
  /\ ret.was_fitted
  /\ ret.exc = NoExc
  /\ catalog = {}
  /\ Instance.courses_df = Some(<<>>)

\* C15: when refresh() has completed over a non-empty catalog, the engine is
\* fitted, its index holds exactly the published courses, and for every
\* published course, a new one included, get_recommendations for it succeeds
\* and the list for every other course with top_n = N - 1 or N, min_score 0
\* and no category filter contains it.
C15_RefreshSurfacesCatalog ==
  ( /\ ret.op = "refresh"
    /\ ret.exc = NoExc
    /\ catalog # {} )
  => /\ Instance._is_fitted
     /\ DOMAIN Val(Instance.course_indices) = catalog
     /\ \A new_id \in catalog :
          /\ GetRecommendations(Instance, Published, TRUE, new_id,
                                1, FALSE, 0).exc = NoExc
          /\ \A other \in catalog \ {new_id} :
             \A top_n \in {Cardinality(catalog) - 1, Cardinality(catalog)} :
               new_id \in ResultIds(
                 GetRecommendations(Instance, Published, TRUE, other,
                                    top_n, FALSE, 0).result)

\* C15 witness: refresh() of a fitted engine completed over three courses, D
\* among them
C15_Witness ==
  /\ ret.op = "refresh"
  /\ ret.was_fitted
  /\ ret.exc = NoExc
  /\ catalog = {"A", "B", "D"}
  /\ Len(Val(Instance.courses_df)) = 3

\* C16: refresh() is idempotent: from the state a completed refresh() leaves,
\* a further refresh() over the unchanged catalog completes and leaves the
\* same engine (corpus, index, vectorizer, matrices, fitted flag), so that
\* every query answers from the same state.
C16_RefreshIdempotent ==
  ( /\ ret.op = "refresh"
    /\ ret.exc = NoExc )
  => Refresh(Instance, Published, TRUE) = Returns(Instance)

\* C16 witness: refresh() completed on a corpus of two courses
C16_Witness ==
  /\ ret.op = "refresh"
  /\ ret.exc = NoExc
  /\ Instance._is_fitted
  /\ Len(Val(Instance.courses_df)) = 2

\* the operations that run a query on the singleton
SimilarOps == {"get_recommendations", "RecommendationView.post"}
TextOps == {"get_recommendations_for_text", "TextRecommendationView.post"}

\* C17: a query on a fitted engine does not change any engine, whatever the
\* catalog holds by then, and answers from the engine alone: an id outside
\* the index raises ValueError, an id of the index gets the ranking of the
\* stored matrix, a text the ranking of the stored TF-IDF rows.
C17_QueriesReuseTheFit ==
  [][( /\ ret = NoRet
       /\ _recommender_instance # 0
       /\ Instance._is_fitted
       /\ ret'.op \in SimilarOps \cup TextOps )
     => /\ engines' = engines
        /\ ( /\ ret'.op \in SimilarOps
             /\ ret'.course_id \notin DOMAIN Val(Instance.course_indices) )
           => ret'.exc = "ValueError"
        /\ ( /\ ret'.op \in SimilarOps
             /\ ret'.course_id \in DOMAIN Val(Instance.course_indices) )
           => /\ ret'.exc = NoExc
              /\ ret'.result = RankSimilar(Instance, ret'.course_id, ret'.top_n,
                                           ret'.exclude_same_category,
                                           ret'.min_score)
        /\ ret'.op \in TextOps
           => /\ ret'.exc = NoExc
              /\ \E ties \in TieOrders :
                   ret'.result = RankForText(Instance, ret'.query_text,
                                             ret'.top_n, ret'.min_score, ties)]_vars

\* C17 witness: a course published after the fit is reported as not found
C17_Witness ==
  /\ ret.op = "get_recommendations"
  /\ ret.was_fitted
  /\ ret.exc = "ValueError"
  /\ ret.course_id \in catalog
  /\ ret.course_id \notin DOMAIN Val(Instance.course_indices)

\* C18: get_recommendations leaves the engine as it was, fitted or not.
C18_QueryHasNoSideEffect ==
  [][( /\ ret = NoRet
       /\ ret'.op = "get_recommendations" )
     => engines' = engines]_vars

\* engine e without what a fit builds
WithoutVectorSpace(e) ==
  [e EXCEPT !._is_fitted = FALSE, !.vectorizer = None,
            !.tfidf_matrix = None, !.cosine_sim = None]

C20_OutOfVocabularyQuery ==
  [][( /\ ret = NoRet
       /\ _recommender_instance # 0
       /\ Instance._is_fitted
       /\ ret'.op \in TextOps
       /\ ret'.query_text \cap Val(Instance.vectorizer).vocabulary = {} )
     => /\ ret'.exc = NoExc
        /\ \A k \in DOMAIN ret'.result :
             ret'.result[k].similarity_score = 0]_vars

\* C20 witness: the empty text returned two entries of score 0
C20_Witness ==
  /\ ret.op = "get_recommendations_for_text"
  /\ ret.was_fitted
  /\ ret.query_text = {}
  /\ ret.exc = NoExc
  /\ Len(ret.result) = 2
  /\ \A k \in DOMAIN ret.result : ret.result[k].similarity_score = 0

\* the ids of the rows of corpus df, in the order of the rows
CorpusIds(df) == [i \in DOMAIN df |-> df[i].id]

\* a second engine, constructed and fitted on its own from the records of df
FittedAlone(df) == Fit(NewEngine, CorpusIds(df), TRUE).e

\* what a caller sees of a call: the exception or the returned list
Answer(q) == [exc |-> q.exc, result |-> q.result]

\* engines e1 and e2 answer every query by course id alike
SameAnswersById(e1, e2) ==
  \A course_id \in CourseIds, top_n \in TopNs, exclude \in BOOLEAN,
     min_score \in MinScores :
    Answer(GetRecommendations(e1, <<>>, TRUE, course_id, top_n, exclude, min_score))
      = Answer(GetRecommendations(e2, <<>>, TRUE, course_id, top_n, exclude, min_score))

\* engines e1 and e2 answer every query by text alike, whichever order the
\* build's argsort gives to equal scores
SameAnswersByText(e1, e2) ==
  \A query_text \in DirectQueries, top_n \in TopNs, min_score \in MinScores,
     ties \in TieOrders :
    Answer(GetRecommendationsForText(e1, <<>>, TRUE, query_text, top_n, min_score, ties))
      = Answer(GetRecommendationsForText(e2, <<>>, TRUE, query_text, top_n, min_score, ties))

\* a call that builds the engine has returned without an error and the
\* engine is fitted
BuiltAndFitted ==
  /\ ret.op \in {"get_recommender", "fit", "refresh"}
  /\ ret.exc = NoExc
  /\ _recommender_instance # 0
  /\ Instance._is_fitted

\* C21: the singleton engine, whatever calls it has served before its last
\* build, and a second engine constructed and fitted on its own on the same
\* corpus (the same records in the same order) return the same list, ids,
\* order and scores, for every query by course id and for every query by
\* text.
C21_SameCorpusSameAnswers ==
  BuiltAndFitted =>
    /\ SameAnswersById(Instance, FittedAlone(Val(Instance.courses_df)))
    /\ SameAnswersByText(Instance, FittedAlone(Val(Instance.courses_df)))

\* C21 witness: the engine was fitted before and has been rebuilt by
\* refresh() on a catalog of three courses
C21_Witness ==
  /\ BuiltAndFitted
  /\ ret.op = "refresh"
  /\ ret.was_fitted
  /\ Len(Val(Instance.courses_df)) = 3

\* C22: after a successful fit every entry of the diagonal of the similarity
\* matrix is 1.0, also for a document whose combined text contributes no
\* vocabulary term.
C22_DiagonalIsOne ==
  BuiltAndFitted =>
    \A i \in DOMAIN Val(Instance.cosine_sim) :
      Val(Instance.cosine_sim)[i][i] = Scale

\* a call that returns recommendations has returned a list
ReturnedRecommendations ==
  /\ ret.op \in {"get_recommendations", "get_recommendations_for_text",
                 "RecommendationView.post", "TextRecommendationView.post"}
  /\ ret.exc = NoExc

\* C23: every similarity_score of a returned list lies in [0, 1] and every
\* match_percentage in [0, 100].
C23_ScoresInRange ==
  ReturnedRecommendations =>
    \A k \in DOMAIN ret.result :
      /\ ret.result[k].similarity_score \in 0..Scale
      /\ ret.result[k].match_percentage \in 0..100

\* C23 witness: a list that holds both ends of the range, a course with the
\* text of the query course and a course that shares no term with it
C23_Witness ==
  /\ ReturnedRecommendations
  /\ Len(ret.result) = 2
  /\ ret.result[1].match_percentage = 100
  /\ ret.result[2].similarity_score = 0

\* the display fields stored for course id in the catalog
StoredDisplayFields(id) ==
  [price |-> CourseTable[id].price,
   average_rating |-> CourseTable[id].average_rating,
   platform |-> CourseTable[id].platform,
   external_url |-> CourseTable[id].external_url,
   thumbnail_url |-> CourseTable[id].thumbnail_url]

\* C24: every entry of a list returned by get_recommendations,
\* get_recommendations_for_text or get_popular_courses carries the price, the
\* rating, the thumbnail URL, the external link and the platform stored for
\* its course in the catalog.
C24_DisplayFieldsOfTheCatalog ==
  ( /\ ret.op \in {"get_recommendations", "get_recommendations_for_text",
                   "get_popular_courses"}
    /\ ret.exc = NoExc )
  => \A k \in DOMAIN ret.result :
       ret.result[k].display = StoredDisplayFields(ret.result[k].id)

\* the engine is in a state left by a fit() or refresh() that raised: not
\* fitted, with no corpus (the load raised) or a corpus that was not
\* vectorized
LeftByFailedBuild ==
  /\ _recommender_instance # 0
  /\ ~Instance._is_fitted
  /\ Instance.courses_df # Some(<<>>)

\* refresh() is called on an engine left by a failed build while the catalog
\* is readable and not empty
RefreshAfterFailure ==
  /\ ret = NoRet
  /\ LeftByFailedBuild
  /\ catalog # {}
  /\ ret'.op = "refresh"
  /\ ret'.exc # "DatabaseError"

AnalyzedCorpus(df) == [i \in DOMAIN df |-> Analyze(df[i].combined_text)]

\* refresh() has read a corpus of at least one course in which some document
\* holds a token that is not a stop-word
RefreshedWithTokens ==
  /\ ret.op = "refresh"
  /\ ret.exc # "DatabaseError"
  /\ Val(Instance.courses_df) # <<>>
  /\ Candidates(AnalyzedCorpus(Val(Instance.courses_df))) # {}

\* C26: for a corpus of N >= 1 documents of which at least one holds a valid
\* token that is not a stop-word, fit() succeeds, a corpus of one course
\* included, and its vocabulary is the set of candidate terms whose document
\* frequency df satisfies 1 <= df <= 0.95 * N.
C26_FitSucceedsWithVocabulary ==
  RefreshedWithTokens =>
    /\ ret.exc = NoExc
    /\ Instance._is_fitted
    /\ Val(Instance.vectorizer).vocabulary
         = LimitFeatures(AnalyzedCorpus(Val(Instance.courses_df)),
                         Candidates(AnalyzedCorpus(Val(Instance.courses_df))))

\* a ranking call is made on an engine left unfitted by a fit of an empty
\* catalog, after the catalog has gained published courses, and reads it
QueryAfterCatalogGainedCourses ==
  /\ ret = NoRet
  /\ _recommender_instance # 0
  /\ ~Instance._is_fitted
  /\ Instance.courses_df = Some(<<>>)
  /\ catalog # {}
  /\ ret'.op \in {"get_recommendations", "get_recommendations_for_text"}
  /\ ret'.exc # "DatabaseError"

\* the list the call recorded in r gets from the fitted engine e, for a
\* query by course id; for a query by text, the recorded list when some
\* order of equal scores gives it
AnswerOf(e, r) ==
  IF r.op = "get_recommendations"
    THEN GetRecommendations(e, <<>>, TRUE, r.course_id, r.top_n,
                            r.exclude_same_category, r.min_score).result
  ELSE IF \E ties \in TieOrders :
            r.result = GetRecommendationsForText(e, <<>>, TRUE, r.query_text,
                                                 r.top_n, r.min_score, ties).result
    THEN r.result
  ELSE <<"no order of equal scores gives the list">>

C28_PopularOfNonEmptyCatalog ==
  ( /\ ret.op = "get_popular_courses"
    /\ ~ret.was_fitted
    /\ ret.top_n >= 1
    /\ catalog # {}
    /\ ret.exc = NoExc )
  => ret.result # <<>>

\* C29: the recommend-by-course-id endpoint answers 404 only when the engine
\* is fitted and the requested course id is not in its index; a failure
\* raised while the engine is fitted lazily is not answered with 404.
C29_NotFoundMeansUnknownId ==
  ( /\ ret.op = "RecommendationView.post"
    /\ ret.status = 404 )
  => /\ _recommender_instance # 0
     /\ Instance._is_fitted
     /\ ret.course_id \notin DOMAIN Val(Instance.course_indices)

\* C30: get_recommendations_for_text never raises, whatever state the engine
\* is in and whatever the query: it returns a list.
C30_TextQueryNeverRaises ==
  ret.op = "get_recommendations_for_text" => ret.exc = NoExc

====
